---------------------------- MODULE Spec2Model ----------------------------
(***************************************************************************)
(* Lecture processing pipeline of the lecture-notes backend:               *)
(*   app/main.py                     upload_lecture, delete_lecture        *)
(*   app/services/stt_service.py     AssemblyAIService (transcription)     *)
(*   app/services/gemini_service.py  GeminiService (note synthesis)        *)
(*                                                                         *)
(* Three specifications share the definitions below:                       *)
(*   SpecNotes  one call of GeminiService._generate_notes_sync             *)
(*   SpecPoll   one call of AssemblyAIService.get_transcript               *)
(*   Spec       concurrent runs of upload_lecture and one request to       *)
(*              delete_lecture against the document store and the upload   *)
(*              directory                                                  *)
(***************************************************************************)
EXTENDS Integers, Sequences, FiniteSets, TLC

(***************************************************************************)
(* Program constants.                                                      *)
(***************************************************************************)
\* gemini_service.py:30   len(transcript.strip()) < 50
MinTranscriptChars == 50
\* gemini_service.py:34   max_chars = 30000
MaxChars == 30000
\* gemini_service.py:37   len("\n\n[Transcript truncated due to length]")
MarkerChars == 38
\* gemini_service.py:37   words of the truncation marker
MarkerWords == 5
\* gemini_service.py:211  words[:100], len(words) > 100
PreviewWords == 100
\* gemini_service.py:215  error_msg[:100]
ErrorChars == 100
\* stt_service.py:76      asyncio.sleep(5)
PollSeconds == 5

(***************************************************************************)
(* Bounds of the model.                                                    *)
(***************************************************************************)
\* tokens of a generative response
MaxResp == 4
\* leading / trailing whitespace characters of a transcript
MaxPad == 1
\* polls of one get_transcript call that report a non-terminal status
MaxPolls == 3
\* concurrent requests to upload_lecture
NumRuns == 2

Min(a, b) == IF a < b THEN a ELSE b

(***************************************************************************)
(* Python / JSON values.  A value is a record tagged by its type; each     *)
(* type keeps its payload under a field name of its own.                   *)
(***************************************************************************)
JNull == [t |-> "null"]
JStr(s) == [t |-> "str", s |-> s]
JNum(n) == [t |-> "num", n |-> n]
JBool(b) == [t |-> "bool", b |-> b]
JList(xs) == [t |-> "list", xs |-> xs]
JDict(d) == [t |-> "dict", d |-> d]
\* a str whose content is described by a record instead of spelled out
\* (a transcript, a preview of it, a summary embedding an error message)
PyText(tx) == [t |-> "text", tx |-> tx]

EmptyDict == [k \in {} |-> JNull]

\* Python truth value of a JSON value: `if notes["sections"]:`
Truthy(v) ==
    CASE v.t = "null" -> FALSE
      [] v.t = "str"  -> v.s # ""
      [] v.t = "num"  -> v.n # 0
      [] v.t = "bool" -> v.b
      [] v.t = "list" -> Len(v.xs) > 0
      [] v.t = "dict" -> DOMAIN v.d # {}
      [] OTHER        -> TRUE

\* results of a step that may raise
Ok(v) == [ok |-> TRUE, v |-> v]
Raise(exc, len) == [ok |-> FALSE, err |-> [exc |-> exc, len |-> len]]

(***************************************************************************)
(* Transcript text.  A text is None or                                     *)
(*   lead whitespace, n words of w characters joined by single spaces,     *)
(*   then (after a cut in the middle of a word) the first p characters of  *)
(*   one more word, trail whitespace, and the truncation marker if marked. *)
(***************************************************************************)
NoneText == [none |-> TRUE]
Text(lead, n, w, trail) ==
    [none |-> FALSE, lead |-> lead, n |-> n, w |-> w, p |-> 0,
     trail |-> trail, marked |-> FALSE]

\* characters of the words, their separators included
BodyChars(tx) ==
    (IF tx.n > 0 THEN tx.n * tx.w + (tx.n - 1) ELSE 0)
    + (IF tx.p > 0 THEN tx.p + (IF tx.n > 0 THEN 1 ELSE 0) ELSE 0)

\* len(transcript)
TextLen(tx) ==
    tx.lead + BodyChars(tx) + tx.trail + (IF tx.marked THEN MarkerChars ELSE 0)

\* len(transcript.strip())
StripLen(tx) ==
    IF tx.marked
      THEN IF BodyChars(tx) = 0 THEN MarkerChars - 2
           ELSE BodyChars(tx) + tx.trail + MarkerChars
      ELSE BodyChars(tx)

\* len(transcript.split())
WordCount(tx) ==
    tx.n + (IF tx.p > 0 THEN 1 ELSE 0) + (IF tx.marked THEN MarkerWords ELSE 0)

\* transcript[:max_chars] + "\n\n[Transcript truncated due to length]"
Truncate(tx) ==
    LET rem == MaxChars - tx.lead
        unit == tx.w + 1
        k == rem \div unit
        r == rem % unit
    IN  IF tx.lead >= MaxChars
          THEN [tx EXCEPT !.lead = MaxChars, !.n = 0, !.p = 0, !.trail = 0,
                          !.marked = TRUE]
        ELSE IF rem >= BodyChars(tx)
          THEN [tx EXCEPT !.trail = rem - BodyChars(tx), !.marked = TRUE]
        ELSE IF r = tx.w
          THEN [tx EXCEPT !.n = k + 1, !.trail = 0, !.marked = TRUE]
        ELSE IF r = 0
          THEN [tx EXCEPT !.n = k, !.trail = 1, !.marked = TRUE]
          ELSE [tx EXCEPT !.n = k, !.p = r, !.trail = 0, !.marked = TRUE]


(***************************************************************************)
(* Generative response text.  A response is a sequence of tokens and the   *)
(* JSON value `val` that every "V" token spells:                           *)
(*   "FJ"  ```json        "F"   ```          "WS"  whitespace              *)
(*   "LB"  {              "RB"  }                                          *)
(*   "V"   the JSON text of val: an object (its first character is {, its  *)
(*         last is }) or a value written without braces, backticks or      *)
(*         whitespace (5, null, "x", [])                                   *)
(*   "X"   a word of prose: no brace, no backtick, no whitespace, not JSON *)
(***************************************************************************)
Tokens == {"FJ", "F", "WS", "LB", "RB", "V", "X"}

RECURSIVE DropWS(_)
\* the \s* after a matched prefix; str.lstrip()
DropWS(s) == IF s # <<>> /\ Head(s) = "WS" THEN DropWS(Tail(s)) ELSE s

RECURSIVE DropWSEnd(_)
\* the \s* before a matched suffix; str.rstrip()
DropWSEnd(s) ==
    IF s # <<>> /\ s[Len(s)] = "WS" THEN DropWSEnd(SubSeq(s, 1, Len(s) - 1)) ELSE s

\* str.strip()
Strip(s) == DropWSEnd(DropWS(s))

\* re.sub(r'^```json\s*', '', response_text)
SubFenceJson(s) == IF s # <<>> /\ Head(s) = "FJ" THEN DropWS(Tail(s)) ELSE s

\* re.sub(r'^```\s*', '', response_text): of a leading ```json only the three
\* backticks match, and the word json stays
SubFence(s) ==
    IF s # <<>> /\ Head(s) = "F" THEN DropWS(Tail(s))
    ELSE IF s # <<>> /\ Head(s) = "FJ" THEN <<"X">> \o Tail(s)
    ELSE s

\* re.sub(r'\s*```$', '', response_text)
SubFenceEnd(s) ==
    IF s # <<>> /\ s[Len(s)] = "F" THEN DropWSEnd(SubSeq(s, 1, Len(s) - 1)) ELSE s

\* whether the text of token tok holds a { / a }
HasOpen(tok, val) == tok = "LB" \/ (tok = "V" /\ val.t = "dict")
HasClose(tok, val) == tok = "RB" \/ (tok = "V" /\ val.t = "dict")

\* re.search(r'\{.*\}', response_text, re.DOTALL) and json_match.group(0):
\* from the first { to the last } after it; the text itself when none matches
SearchObject(s, val) ==
    LET opens == {i \in 1..Len(s) : HasOpen(s[i], val)}
        closes == {i \in 1..Len(s) : HasClose(s[i], val)}
    IN  IF opens = {} THEN s
        ELSE LET i == CHOOSE x \in opens : \A y \in opens : x <= y
                 after == {j \in closes : j > i \/ (j = i /\ s[i] = "V")}
             IN  IF after = {} THEN s
                 ELSE LET j == CHOOSE x \in after : \A y \in after : y <= x
                      IN  SubSeq(s, i, j)

RECURSIVE Digits(_, _)
\* the number that k copies of the digit n spell
Digits(n, k) == IF k = 0 THEN 0 ELSE 10 * Digits(n, k - 1) + n

\* json.loads(response_text): whitespace around the value is skipped;
\* "{" whitespace "}" is the empty object; digits 1..9 written one after the
\* other spell one number; anything else is a json.JSONDecodeError, whose
\* str(e) is like "Expecting value: line 1 column 1 (char 0)" (41 characters)
JsonLoads(s, val) ==
    LET body == Strip(s)
    IN  IF body = <<"V">> THEN Ok(val)
        ELSE IF Len(body) >= 2 /\ val.t = "num" /\ val.n \in 1..9
                /\ \A i \in 1..Len(body) : body[i] = "V"
          THEN Ok(JNum(Digits(val.n, Len(body))))
        ELSE IF Len(body) >= 2 /\ Head(body) = "LB" /\ body[Len(body)] = "RB"
                /\ \A i \in 2..(Len(body) - 1) : body[i] = "WS"
          THEN Ok(JDict(EmptyDict))
          ELSE Raise("JSONDecodeError", 41)

\* mutation of extract_json_from_response: json.loads of the response as it
\* came, with no fence removed and no object searched
extract_json_unstripped(resp) == JsonLoads(resp.toks, resp.val)

\* GeminiService._extract_json_from_response
extract_json_from_response(resp) ==
    LET t1 == Strip(resp.toks)
        t2 == SubFenceJson(t1)
        t3 == SubFence(t2)
        t4 == SubFenceEnd(t3)
        t5 == Strip(t4)
    IN  JsonLoads(SearchObject(t5, resp.val), resp.val)


(***************************************************************************)
(* Validation of the parsed value.                                         *)
(***************************************************************************)
RequiredKeys ==
    {"title", "summary", "sections", "key_terms", "formulas", "action_items",
     "questions"}

\* required_keys: the default of each required key
Default(k) ==
    CASE k = "title"   -> JStr("Untitled Lecture")
      [] k = "summary" -> JStr("Summary unavailable")
      [] OTHER         -> JList(<<>>)

SectionKeys == <<"heading", "content", "bullet_points", "timestamp">>

SectionDefault(k) ==
    CASE k = "heading"       -> JStr("Untitled Section")
      [] k = "content"       -> JStr("")
      [] k = "bullet_points" -> JList(<<>>)
      [] OTHER               -> JNull

\* `key in c`: a key of a dict, an element of a list, a substring of a str (no
\* str of the model holds a field name as a proper substring); TypeError
\* "argument of type 'int' is not iterable" (39 characters) for the rest
PyIn(key, c) ==
    CASE c.t = "dict" -> Ok(key \in DOMAIN c.d)
      [] c.t = "list" ->
            Ok(\E i \in 1..Len(c.xs) : c.xs[i].t = "str" /\ c.xs[i].s = key)
      [] c.t = "str"  -> Ok(c.s = key)
      [] OTHER        -> Raise("TypeError", 39)

\* `c[key] = v`: only a dict takes a str key; TypeError
\* "'str' object does not support item assignment" (45 characters) for the rest
PySetItem(c, key, v) ==
    IF c.t = "dict"
      THEN Ok(JDict([k \in DOMAIN c.d \cup {key} |-> IF k = key THEN v ELSE c.d[k]]))
      ELSE Raise("TypeError", 45)

\* `for x in c`: the elements of a list, the keys of a dict, the characters of
\* a str (the strs of the model that are iterated hold at most one character);
\* TypeError "'int' object is not iterable" (28 characters) for the rest
PyIter(c) ==
    CASE c.t = "list" -> Ok(c.xs)
      [] c.t = "dict" ->
            LET RECURSIVE keys(_)
                keys(K) == IF K = {} THEN <<>>
                           ELSE LET k == CHOOSE x \in K : TRUE
                                IN  <<JStr(k)>> \o keys(K \ {k})
            IN  Ok(keys(DOMAIN c.d))
      [] c.t = "str"  -> Ok(IF c.s = "" THEN <<>> ELSE <<c>>)
      [] OTHER        -> Raise("TypeError", 28)

RECURSIVE FixSection(_, _)
\* the four `if "<key>" not in section: section["<key>"] = <default>`
FixSection(section, i) ==
    IF i > Len(SectionKeys) THEN Ok(section)
    ELSE LET key == SectionKeys[i]
             has == PyIn(key, section)
         IN  IF ~has.ok THEN has
             ELSE IF has.v THEN FixSection(section, i + 1)
             ELSE LET set == PySetItem(section, key, SectionDefault(key))
                  IN  IF ~set.ok THEN set ELSE FixSection(set.v, i + 1)

RECURSIVE FixSections(_)
\* `for section in notes["sections"]:` over the elements xs
FixSections(xs) ==
    IF xs = <<>> THEN Ok(<<>>)
    ELSE LET first == FixSection(Head(xs), 1)
         IN  IF ~first.ok THEN first
             ELSE LET rest == FixSections(Tail(xs))
                  IN  IF ~rest.ok THEN rest ELSE Ok(<<first.v>> \o rest.v)

\* mutation of FillDefaults: `if key not in notes`, a null field stays null
FillDefaultsOfAbsent(d) ==
    [k \in DOMAIN d \cup RequiredKeys |->
        IF k \in RequiredKeys /\ k \notin DOMAIN d THEN Default(k) ELSE d[k]]

\* the loop over required_keys: `if key not in notes or notes[key] is None`
FillDefaults(d) ==
    [k \in DOMAIN d \cup RequiredKeys |->
        IF k \in RequiredKeys /\ (k \notin DOMAIN d \/ d[k].t = "null")
          THEN Default(k) ELSE d[k]]

\* the one section made from the summary
OverviewSection(summary) ==
    JDict([heading |-> JStr("Overview"), content |-> summary,
           bullet_points |-> JList(<<JStr("See transcript for full details")>>),
           timestamp |-> JNull])

\* mutation of validate_notes_structure: the branch that makes the Overview
\* section is gone, and so is the loop over the sections
validate_notes_keeps_empty(notes) ==
    IF notes.t # "dict"
      THEN LET has == PyIn("title", notes)
           IN  IF ~has.ok THEN has ELSE Raise("TypeError", 45)
      ELSE Ok(JDict(FillDefaults(notes.d)))

\* GeminiService._validate_notes_structure.  Of a value that is no dict the
\* first `key not in notes` or `notes[key] = default` raises TypeError.  The
\* sections of a list are fixed in place; the elements of a dict or a str are
\* strs, which are left as they are or raise.
validate_notes_structure(notes) ==
    IF notes.t # "dict"
      THEN LET has == PyIn("title", notes)
           IN  IF ~has.ok THEN has ELSE Raise("TypeError", 45)
    ELSE LET d == FillDefaults(notes.d)
         IN  IF Truthy(d["sections"])
               THEN LET it == PyIter(d["sections"])
                    IN  IF ~it.ok THEN it
                        ELSE LET fixed == FixSections(it.v)
                             IN  IF ~fixed.ok THEN fixed
                                 ELSE IF d["sections"].t = "list"
                                   THEN Ok(JDict([d EXCEPT !["sections"] = JList(fixed.v)]))
                                   ELSE Ok(JDict(d))
               ELSE Ok(JDict([d EXCEPT !["sections"] =
                                 JList(<<OverviewSection(d["summary"])>>)]))

\* mutation of Preview: preview = ' '.join(words[:100])
PreviewOfWordsOnly(tx) ==
    PyText([kind |-> "words", of |-> tx, words |-> PreviewWords, dots |-> FALSE])

\* preview = ' '.join(words[:100]) + "..." if len(words) > 100 else transcript
Preview(tx) ==
    IF WordCount(tx) > PreviewWords
      THEN PyText([kind |-> "words", of |-> tx, words |-> PreviewWords, dots |-> TRUE])
      ELSE PyText([kind |-> "whole", of |-> tx])

\* GeminiService._create_fallback_notes
create_fallback_notes(transcript, error_msg) ==
    JDict([title |-> JStr("Lecture Notes (Auto-generated)"),
           summary |-> PyText([kind |-> "error_summary", exc |-> error_msg.exc,
                               chars |-> Min(error_msg.len, ErrorChars)]),
           sections |-> JList(<<
               JDict([heading |-> JStr("Transcript Preview"),
                      content |-> Preview(transcript),
                      bullet_points |-> JList(<<
                          JStr("Full transcript available"),
                          JStr("AI note generation encountered an error"),
                          JStr("Please review the raw transcript")>>),
                      timestamp |-> JNull])>>),
           key_terms |-> JList(<<>>),
           formulas |-> JList(<<>>),
           action_items |-> JList(<<JStr("Review full transcript manually")>>),
           questions |-> JList(<<>>)])


(***************************************************************************)
(* GeminiService._generate_notes_sync as one function of the transcript    *)
(* and of what the provider does when it is called.                        *)
(***************************************************************************)
\* an outcome of self.model.generate_content(...) and response.text
ProviderText(resp) == [kind |-> "text", resp |-> resp]
ProviderRaises(len) == [kind |-> "raises", err |-> [exc |-> "ProviderError", len |-> len]]

\* mutation of TooShort: the comparison is off by one
TooShortByOne(transcript) ==
    \/ transcript.none
    \/ TextLen(transcript) = 0
    \/ StripLen(transcript) < MinTranscriptChars - 1

\* `not transcript or len(transcript.strip()) < 50`
TooShort(transcript) ==
    \/ transcript.none
    \/ TextLen(transcript) = 0
    \/ StripLen(transcript) < MinTranscriptChars

\* `if len(transcript) > max_chars: transcript = transcript[:max_chars] + ...`
LengthGuard(transcript) ==
    IF TextLen(transcript) > MaxChars THEN Truncate(transcript) ELSE transcript

\* the try block: the call, extraction, validation; Ok(notes) or the exception
TrySynthesis(outcome) ==
    IF outcome.kind = "raises" THEN [ok |-> FALSE, err |-> outcome.err]
    ELSE LET parsed == extract_json_from_response(outcome.resp)
         IN  IF ~parsed.ok THEN parsed ELSE validate_notes_structure(parsed.v)

\* mutation of generate_notes_sync: no except block, the exception of the try
\* block leaves the call
generate_notes_sync_raising(transcript, outcome) ==
    IF transcript.none \/ TextLen(transcript) = 0
       \/ StripLen(transcript) < MinTranscriptChars
      THEN [raised |-> TRUE, exc |-> "ValueError", calls |-> 0]
      ELSE LET tried == TrySynthesis(outcome)
           IN  IF tried.ok
                 THEN [raised |-> FALSE, calls |-> 1, fallback |-> FALSE,
                       notes |-> tried.v]
                 ELSE [raised |-> TRUE, exc |-> tried.err.exc, calls |-> 1]

\* what the call returns: raised with exc, or returned with notes; `calls` is
\* the number of provider calls it issued
generate_notes_sync(transcript, outcome) ==
    IF TooShort(transcript)
      THEN [raised |-> TRUE, exc |-> "ValueError", calls |-> 0]
      ELSE LET text == LengthGuard(transcript)
               tried == TrySynthesis(outcome)
           IN  [raised |-> FALSE, calls |-> 1, fallback |-> ~tried.ok,
                notes |-> IF tried.ok THEN tried.v
                          ELSE create_fallback_notes(text, tried.err)]

(***************************************************************************)
(* Inputs of the synthesis: transcripts and provider outcomes.             *)
(***************************************************************************)
Pads == 0..MaxPad

\* <<words, characters per word>>
Shapes ==
    {<<0, 0>>, <<1, 1>>,
     <<1, MinTranscriptChars - 1>>, <<1, MinTranscriptChars>>,
     <<MinTranscriptChars \div 2, 1>>, <<(MinTranscriptChars \div 2) + 1, 1>>,
     <<PreviewWords, 1>>, <<PreviewWords + 1, 1>>,
     <<1, MaxChars>>, <<1, MaxChars + 1>>, <<MaxChars \div 2, 2>>}

Transcripts ==
    {NoneText}
    \cup {Text(l, sh[1], sh[2], tr) : l \in Pads, tr \in Pads, sh \in Shapes}
    \cup {Text(MinTranscriptChars + l, 0, 0, 0) : l \in Pads}

\* the transcripts every provider outcome is tried on
CoreTranscripts ==
    {Text(0, 1, MinTranscriptChars, 0), Text(0, PreviewWords + 1, 1, 0)}

Absent == [t |-> "absent"]

\* the object with the members that are not Absent
MkDict(title, summary, sections, terms) ==
    LET all == [title |-> title, summary |-> summary, sections |-> sections,
                key_terms |-> terms, formulas |-> terms, action_items |-> terms,
                questions |-> terms]
        keys == {k \in DOMAIN all : all[k].t # "absent"}
    IN  JDict([k \in keys |-> all[k]])

FullSection ==
    JDict([heading |-> JStr("H"), content |-> JStr("C"),
           bullet_points |-> JList(<<JStr("p")>>), timestamp |-> JStr("5:30")])

SectionsVals ==
    {Absent, JNull, JList(<<>>), JList(<<FullSection>>),
     JList(<<JDict([heading |-> JStr("H")]), JDict(EmptyDict), FullSection>>),
     JList(<<FullSection, JNum(1)>>),
     JList(<<JList(<<JStr("heading"), JStr("content"), JStr("bullet_points"),
                     JStr("timestamp")>>)>>),
     JList(<<JNull>>),
     JStr(""), JStr("x"), JNum(0), JNum(5), JBool(TRUE), JBool(FALSE),
     JDict(EmptyDict), JDict([heading |-> JNull])}

ObjectVals ==
    {MkDict(ti, su, se, te) :
        ti \in {Absent, JNull, JStr("T")}, su \in {Absent, JNull, JStr("S")},
        se \in SectionsVals, te \in {Absent, JNull, JList(<<JStr("a")>>)}}

ScalarVals ==
    {JNull, JNum(0), JNum(5), JStr(""), JStr("title"), JBool(TRUE), JList(<<>>),
     JList(<<JStr("title")>>)}

\* well-formed notes, an object with no member, and a number
GoodNotes == MkDict(JStr("T"), JStr("S"), JList(<<FullSection>>), JList(<<JStr("a")>>))
CoreVals == {GoodNotes, MkDict(JStr("T"), Absent, Absent, Absent), JNum(5)}

TokSeqs == UNION {[1..n -> Tokens] : n \in 0..MaxResp}

\* every token sequence around a core value, every value on its own
Responses ==
    {[toks |-> s, val |-> v] : s \in {q \in TokSeqs : \E i \in 1..Len(q) : q[i] = "V"},
                               v \in CoreVals}
    \cup {[toks |-> s, val |-> JNull] :
            s \in {q \in TokSeqs : \A i \in 1..Len(q) : q[i] # "V"}}
    \cup {[toks |-> <<"V">>, val |-> v] : v \in ObjectVals \cup ScalarVals}

ProviderErrorChars == {0, ErrorChars, ErrorChars + 1}

ProviderOutcomes ==
    {ProviderText(r) : r \in Responses} \cup {ProviderRaises(n) : n \in ProviderErrorChars}

CoreOutcomes ==
    {ProviderText([toks |-> <<"V">>, val |-> GoodNotes]),
     ProviderText([toks |-> <<"X">>, val |-> JNull]),
     ProviderRaises(ErrorChars + 1)}


(***************************************************************************)
(* State.                                                                  *)
(***************************************************************************)
\* one call of _generate_notes_sync
VARIABLES
    g_pc,          \* "check", "call", "extract", "validate", "fallback",
                   \* "returned", "raised"
    g_input,       \* the transcript the call was given
    g_transcript,  \* the local `transcript`
    g_response,    \* what the provider did, once called
    g_notes,       \* the local `notes`
    g_e,           \* the exception caught or raised
    g_calls        \* provider calls issued

g_vars == <<g_pc, g_input, g_transcript, g_response, g_notes, g_e, g_calls>>

\* one call of get_transcript
VARIABLES
    p_pc,      \* "request", "sleep", "returned", "raised"
    p_seen,    \* the replies to the polls so far, in order
    p_slept,   \* seconds spent in asyncio.sleep
    p_result   \* the result returned or the exception raised

p_vars == <<p_pc, p_seen, p_slept, p_result>>

\* the runs of upload_lecture, the store, the upload directory, and the
\* requests to delete_lecture and to get_notes
VARIABLES
    pc,                \* where each run of upload_lecture is
    temp_path,         \* the local temp_path, Unbound at first
    lecture_id,        \* the local lecture_id, Unbound at first
    audio,             \* the run whose bytes upload_file read from temp_path
    text,              \* transcript_data["text"]
    called_generate,   \* whether the run called gemini_service.generate_notes
    structured_notes,  \* what generate_notes returned
    e,                 \* the exception the except block caught
    reply,             \* what the caller of upload_lecture received
    lectures,          \* db.lectures: id -> document, NoDoc where there is none
    notes,             \* db.notes: the set of documents
    purged,            \* ids a delete_many({"lecture_id": id}) has run for
    files,             \* UPLOAD_DIR: path -> the run whose bytes it holds
    d_pc,              \* where the request to delete_lecture is
    d_id,              \* its lecture_id
    d_reply,           \* what its caller received
    n_pc,              \* where the request to get_notes is
    n_id,              \* its lecture_id
    n_reply            \* what its caller received

r_vars ==
    <<pc, temp_path, lecture_id, audio, text, called_generate, structured_notes,
      e, reply>>
s_vars == <<lectures, notes, purged, files>>
d_vars == <<d_pc, d_id, d_reply>>
n_vars == <<n_pc, n_id, n_reply>>
vars == <<r_vars, s_vars, d_vars, n_vars, g_vars, p_vars, n_vars>>

Unset == [unset |-> TRUE]

(***************************************************************************)
(* SpecNotes: _generate_notes_sync step by step.                           *)
(***************************************************************************)
G_Init ==
    /\ g_pc = "check"
    /\ g_input \in Transcripts
    /\ g_transcript = g_input
    /\ g_response = Unset
    /\ g_notes = Unset
    /\ g_e = Unset
    /\ g_calls = 0

G_Idle ==
    /\ g_pc = "idle"
    /\ g_input = Unset
    /\ g_transcript = Unset
    /\ g_response = Unset
    /\ g_notes = Unset
    /\ g_e = Unset
    /\ g_calls = 0

\* lines 30-37: the precondition and the length guard
G_Check ==
    /\ g_pc = "check"
    /\ IF TooShort(g_transcript)
         THEN /\ g_pc' = "raised"
              /\ g_e' = [exc |-> "ValueError", len |-> 32]
              /\ UNCHANGED g_transcript
         ELSE /\ g_pc' = "call"
              /\ g_transcript' = LengthGuard(g_transcript)
              /\ UNCHANGED g_e
    /\ UNCHANGED <<g_input, g_response, g_notes, g_calls>>
    /\ UNCHANGED <<r_vars, s_vars, d_vars, p_vars, n_vars>>

\* lines 44-73: generate_content and response.text
G_Call ==
    /\ g_pc = "call"
    /\ \E outcome \in IF g_input \in CoreTranscripts THEN ProviderOutcomes
                                                     ELSE CoreOutcomes :
          /\ g_response' = outcome
          /\ IF outcome.kind = "raises"
               THEN g_pc' = "fallback" /\ g_e' = outcome.err
               ELSE g_pc' = "extract" /\ UNCHANGED g_e
    /\ g_calls' = g_calls + 1
    /\ UNCHANGED <<g_input, g_transcript, g_notes>>
    /\ UNCHANGED <<r_vars, s_vars, d_vars, p_vars, n_vars>>

\* line 73: notes = self._extract_json_from_response(response.text)
G_Extract ==
    /\ g_pc = "extract"
    /\ LET parsed == extract_json_from_response(g_response.resp)
       IN  IF parsed.ok
             THEN g_pc' = "validate" /\ g_notes' = parsed.v /\ UNCHANGED g_e
             ELSE g_pc' = "fallback" /\ g_e' = parsed.err /\ UNCHANGED g_notes
    /\ UNCHANGED <<g_input, g_transcript, g_response, g_calls>>
    /\ UNCHANGED <<r_vars, s_vars, d_vars, p_vars, n_vars>>

\* lines 76-79: notes = self._validate_notes_structure(notes); return notes
G_Validate ==
    /\ g_pc = "validate"
    /\ LET valid == validate_notes_structure(g_notes)
       IN  IF valid.ok
             THEN g_pc' = "returned" /\ g_notes' = valid.v /\ UNCHANGED g_e
             ELSE g_pc' = "fallback" /\ g_e' = valid.err /\ UNCHANGED g_notes
    /\ UNCHANGED <<g_input, g_transcript, g_response, g_calls>>
    /\ UNCHANGED <<r_vars, s_vars, d_vars, p_vars, n_vars>>

\* lines 81-84: return self._create_fallback_notes(transcript, str(e))
G_Fallback ==
    /\ g_pc = "fallback"
    /\ g_pc' = "returned"
    /\ g_notes' = create_fallback_notes(g_transcript, g_e)
    /\ UNCHANGED <<g_input, g_transcript, g_response, g_e, g_calls>>
    /\ UNCHANGED <<r_vars, s_vars, d_vars, p_vars, n_vars>>

G_Next == G_Check \/ G_Call \/ G_Extract \/ G_Validate \/ G_Fallback


(***************************************************************************)
(* AssemblyAIService.get_transcript: what one poll leads to.               *)
(***************************************************************************)
\* the texts a completed job carries: one below the synthesis precondition,
\* one that meets it
PollTexts == {Text(0, 1, MinTranscriptChars - 1, 0), Text(0, 1, MinTranscriptChars, 0)}

\* the error messages a failed job carries
ProviderErrors == {"bad audio", "no speech"}

\* a reply to client.get(url): an HTTP error (raise_for_status raises), or a
\* body with the status it reports and that status' fields; "other" is any
\* status string that is none of queued, processing, completed, error
PollReplies ==
    {[http |-> "error"]}
    \cup {[http |-> "ok", status |-> "completed", text |-> tx] : tx \in PollTexts}
    \cup {[http |-> "ok", status |-> "error", error |-> msg] : msg \in ProviderErrors}
    \cup {[http |-> "ok", status |-> st] : st \in {"queued", "processing", "other"}}

\* mutation of PollOutcome: a job that reports error is polled again
PollOutcomeErrorWaits(rep) ==
    IF rep.http = "error" THEN "raise"
    ELSE IF rep.status = "completed" THEN "return"
    ELSE "sleep"

\* lines 64-76: "return", "raise" or "sleep"
PollOutcome(rep) ==
    IF rep.http = "error" THEN "raise"
    ELSE IF rep.status = "completed" THEN "return"
    ELSE IF rep.status = "error" THEN "raise"
    ELSE "sleep"

\* the exception a poll raises: raise_for_status's, or
\* Exception(f"Transcription failed: {result.get('error')}")
PollError(rep) ==
    IF rep.http = "error"
      THEN [exc |-> "HTTPStatusError", stage |-> "poll"]
      ELSE [exc |-> "Exception", stage |-> "poll",
            msg |-> <<"Transcription failed: ", rep.error>>]

(***************************************************************************)
(* SpecPoll: one call of get_transcript.                                   *)
(***************************************************************************)
P_Init ==
    /\ p_pc = "request"
    /\ p_seen = <<>>
    /\ p_slept = 0
    /\ p_result = Unset

P_Idle ==
    /\ p_pc = "idle"
    /\ p_seen = <<>>
    /\ p_slept = 0
    /\ p_result = Unset

\* lines 64-73: one pass of the loop up to the return, the raise or the sleep;
\* the model stops a job from staying unfinished after MaxPolls polls
P_Request ==
    /\ p_pc = "request"
    /\ \E rep \in PollReplies :
          /\ PollOutcome(rep) = "sleep" => Len(p_seen) < MaxPolls
          /\ p_seen' = Append(p_seen, rep)
          /\ CASE PollOutcome(rep) = "return" ->
                    p_pc' = "returned" /\ p_result' = rep
               [] PollOutcome(rep) = "raise" ->
                    p_pc' = "raised" /\ p_result' = PollError(rep)
               [] OTHER ->
                    p_pc' = "sleep" /\ UNCHANGED p_result
    /\ UNCHANGED p_slept
    /\ UNCHANGED <<r_vars, s_vars, d_vars, g_vars, n_vars>>

\* line 76: await asyncio.sleep(5)
P_Sleep ==
    /\ p_pc = "sleep"
    /\ p_pc' = "request"
    /\ p_slept' = p_slept + PollSeconds
    /\ UNCHANGED <<p_seen, p_result>>
    /\ UNCHANGED <<r_vars, s_vars, d_vars, g_vars, n_vars>>

P_Next == P_Request \/ P_Sleep


(***************************************************************************)
(* The pipeline: upload_lecture and delete_lecture.                        *)
(***************************************************************************)
Runs == 1..NumRuns
\* file names in UPLOAD_DIR: name r is the one the clock gives run r when it
\* gives it a name of its own
Paths == Runs

\* str(result.inserted_id): the store gives every inserted lecture an id of
\* its own; the id of the lecture a run inserts is the run's number
LectureIds == Runs
\* a well-formed id that no lecture ever had
GhostId == NumRuns + 1

NoDoc == [absent |-> TRUE]
\* no file at a path; a local name not bound yet ('lecture_id' in locals())
NoFile == 0
Unbound == 0

\* the exceptions of the pipeline's own steps, by the step that raises
Error(exc, stage) == [exc |-> exc, stage |-> stage]

\* stage names of stt_service.transcribe
TranscriptionStages == {"upload_file", "create_transcript", "poll"}

\* the text of a detail written in the source
Message(s) == [message |-> s]
\* HTTPException(status_code, detail) as the caller sees it
\* (detail is a Message, or the exception whose str() it is)
Http(code, detail) == [code |-> code, detail |-> detail]
\* an exception that leaves upload_lecture: the framework answers 500
Unhandled(exc) == [code |-> 500, unhandled |-> exc]
\* line 149: the dict returned
Completed(id, sn) ==
    [code |-> 200, lecture_id |-> id, status |-> "completed",
     preview |-> [title |-> sn.notes.d["title"], summary |-> sn.notes.d["summary"]]]

\* mutation of UpdateOne: the filter matches every document
UpdateEvery(docs, id, set) ==
    [l \in DOMAIN docs |->
        IF docs[l] = NoDoc THEN NoDoc
        ELSE [k \in DOMAIN docs[l] \cup DOMAIN set |->
                 IF k \in DOMAIN set THEN set[k] ELSE docs[l][k]]]

\* db.lectures.update_one({"_id": id}, {"$set": set}): no document, no change
UpdateOne(docs, id, set) ==
    IF docs[id] = NoDoc THEN docs
    ELSE [docs EXCEPT ![id] = [k \in DOMAIN docs[id] \cup DOMAIN set |->
                                  IF k \in DOMAIN set THEN set[k] ELSE docs[id][k]]]

\* os.remove(path) of an existing file; lines 144-147 and 168-169 both leave
\* the directory without the path
Removed(fs, path) == [fs EXCEPT ![path] = NoFile]

R_Init ==
    /\ pc = [r \in Runs |-> "request"]
    /\ temp_path = [r \in Runs |-> Unbound]
    /\ lecture_id = [r \in Runs |-> Unbound]
    /\ audio = [r \in Runs |-> Unbound]
    /\ text = [r \in Runs |-> Unset]
    /\ called_generate = [r \in Runs |-> FALSE]
    /\ structured_notes = [r \in Runs |-> Unset]
    /\ e = [r \in Runs |-> Unset]
    /\ reply = [r \in Runs |-> Unset]
    /\ lectures = [l \in LectureIds |-> NoDoc]
    /\ notes = {}
    /\ purged = {}
    /\ files = [f \in Paths |-> NoFile]
    /\ d_pc = "request"
    /\ d_id = Unbound
    /\ d_reply = Unset
    /\ n_pc = "idle"
    /\ n_id = Unbound
    /\ n_reply = Unset

\* the run ends: the caller gets rep, and the locals are gone with the frame
Finish(r, rep) ==
    /\ pc' = [pc EXCEPT ![r] = "done"]
    /\ reply' = [reply EXCEPT ![r] = rep]
    /\ temp_path' = [temp_path EXCEPT ![r] = Unbound]
    /\ lecture_id' = [lecture_id EXCEPT ![r] = Unbound]
    /\ audio' = [audio EXCEPT ![r] = Unbound]
    /\ text' = [text EXCEPT ![r] = Unset]
    /\ structured_notes' = [structured_notes EXCEPT ![r] = Unset]
    /\ e' = [e EXCEPT ![r] = Unset]

\* lines 159-172 for an exception raised while lecture_id is unbound: no
\* await, so the block runs in the step that raised.  With temp_path unbound
\* os.path.exists(temp_path) raises UnboundLocalError, which leaves the block.
HandleUnbound(r, exc, path) ==
    IF path = Unbound
      THEN /\ Finish(r, Unhandled(Error("UnboundLocalError", "except")))
           /\ UNCHANGED files
      ELSE /\ Finish(r, Http(500, exc))
           /\ files' = Removed(files, path)

\* an exception raised while lecture_id is bound: the except block awaits
\* db.lectures.update_one
Catch(r, exc) ==
    /\ e' = [e EXCEPT ![r] = exc]
    /\ pc' = [pc EXCEPT ![r] = "except"]


\* what an upload request carries, as far as lines 67-85 look at it
Requests ==
    [type_allowed : BOOLEAN, too_large : BOOLEAN, has_filename : BOOLEAN]

\* lines 85-87: f"{datetime.utcnow().timestamp()}{ext}" is a name of the run's
\* own, or, when clock and extension repeat, a name another run holds or a
\* name still in the directory
Names(r) ==
    {r} \cup {temp_path[o] : o \in {o \in Runs : temp_path[o] # Unbound}}
        \cup {f \in Paths : files[f] # NoFile}

\* lines 66-105 for the r-th request to arrive: the two checks,
\* `await file.read()`, then without another await the staging of the file
\* and get_db(); the run stops at the await of db.lectures.insert_one
Receive(r) ==
    /\ pc[r] = "request"
    /\ \A earlier \in 1..(r - 1) : pc[earlier] # "request"
    /\ UNCHANGED <<called_generate, lectures, notes, purged, d_vars, g_vars, p_vars, n_vars>>
    /\ \E req \in Requests :
          \/ /\ ~req.type_allowed
             /\ Finish(r, Http(400, Message("Invalid file type")))
             /\ UNCHANGED files
          \/ /\ req.type_allowed /\ req.too_large
             /\ Finish(r, Http(413, Message("File too large")))
             /\ UNCHANGED files
          \/ \* line 85: os.path.splitext(None) raises TypeError
             /\ req.type_allowed /\ ~req.too_large /\ ~req.has_filename
             /\ HandleUnbound(r, Error("TypeError", "splitext"), Unbound)
          \/ /\ req.type_allowed /\ ~req.too_large /\ req.has_filename
             /\ \E path \in Names(r) :
                   \/ \* line 89: open(temp_path, "wb") raises
                      HandleUnbound(r, Error("OSError", "open"), path)
                   \/ \* the file is written; line 95: get_db() raises
                      HandleUnbound(r, Error("TypeError", "get_db"), path)
                   \/ /\ temp_path' = [temp_path EXCEPT ![r] = path]
                      /\ files' = [files EXCEPT ![path] = r]
                      /\ pc' = [pc EXCEPT ![r] = "insert_lecture"]
                      /\ UNCHANGED <<lecture_id, audio, text, structured_notes,
                                     e, reply>>

\* lines 106-113 and stt_service.py lines 20-23: insert_one answers; the run
\* binds lecture_id, enters transcribe and upload_file, and reads the file
\* before it awaits the post
InsertLecture(r) ==
    /\ pc[r] = "insert_lecture"
    /\ UNCHANGED <<called_generate, notes, purged, d_vars, g_vars, p_vars, n_vars>>
    /\ \/ /\ HandleUnbound(r, Error("PersistenceError", "insert_lecture"), temp_path[r])
          /\ UNCHANGED lectures
       \/ /\ lectures' = [lectures EXCEPT ![r] =
                            [status |-> "processing", file_path |-> temp_path[r]]]
          /\ lecture_id' = [lecture_id EXCEPT ![r] = r]
          /\ UNCHANGED <<temp_path, text, structured_notes, files, reply>>
          /\ IF files[temp_path[r]] = NoFile
               THEN /\ Catch(r, Error("FileNotFoundError", "upload_file"))
                    /\ UNCHANGED audio
               ELSE /\ audio' = [audio EXCEPT ![r] = files[temp_path[r]]]
                    /\ pc' = [pc EXCEPT ![r] = "upload_file"]
                    /\ UNCHANGED e

\* a step of transcribe that awaits the provider and goes on to `next`, or
\* raises
ProviderStep(r, stage, next) ==
    /\ pc[r] = stage
    /\ UNCHANGED <<temp_path, lecture_id, audio, text, called_generate,
                   structured_notes, reply>>
    /\ UNCHANGED <<s_vars, d_vars, g_vars, p_vars, n_vars>>
    /\ \/ Catch(r, Error("HTTPStatusError", stage))
       \/ pc' = [pc EXCEPT ![r] = next] /\ UNCHANGED e

\* stt_service.py lines 26-35: the post of upload_file
UploadFile(r) == ProviderStep(r, "upload_file", "create_transcript")

\* stt_service.py lines 50-56: create_transcript
CreateTranscript(r) == ProviderStep(r, "create_transcript", "poll")

\* stt_service.py lines 64-73 and 87-96, main.py line 117: one poll; a
\* completed job makes transcribe return and the run call generate_notes
Poll(r) ==
    /\ pc[r] = "poll"
    /\ UNCHANGED <<temp_path, lecture_id, audio, structured_notes, reply>>
    /\ UNCHANGED <<s_vars, d_vars, g_vars, p_vars, n_vars>>
    /\ \E rep \in PollReplies :
          CASE PollOutcome(rep) = "return" ->
                 /\ text' = [text EXCEPT ![r] = rep.text]
                 /\ called_generate' = [called_generate EXCEPT ![r] = TRUE]
                 /\ pc' = [pc EXCEPT ![r] = "generate_notes"]
                 /\ UNCHANGED e
            [] PollOutcome(rep) = "raise" ->
                 /\ Catch(r, PollError(rep))
                 /\ UNCHANGED <<text, called_generate>>
            [] OTHER ->
                 /\ pc' = [pc EXCEPT ![r] = "sleep"]
                 /\ UNCHANGED <<text, called_generate, e>>

\* mutation of Sleep: the wait holds the event loop, and ends only when no
\* other run is in flight
SleepHoldsLoop(r) ==
    /\ pc[r] = "sleep"
    /\ \A o \in Runs \ {r} : pc[o] \in {"request", "done", "crashed"}
    /\ pc' = [pc EXCEPT ![r] = "poll"]
    /\ UNCHANGED <<temp_path, lecture_id, audio, text, called_generate,
                   structured_notes, e, reply>>
    /\ UNCHANGED <<s_vars, d_vars, g_vars, p_vars, n_vars>>

\* mutation of Sleep: the wait runs into a deadline and raises
SleepTimesOut(r) ==
    /\ pc[r] = "sleep"
    /\ Catch(r, Error("TimeoutError", "poll"))
    /\ UNCHANGED <<temp_path, lecture_id, audio, text, called_generate,
                   structured_notes, reply>>
    /\ UNCHANGED <<s_vars, d_vars, g_vars, p_vars, n_vars>>

\* stt_service.py line 76: await asyncio.sleep(5)
Sleep(r) ==
    /\ pc[r] = "sleep"
    /\ pc' = [pc EXCEPT ![r] = "poll"]
    /\ UNCHANGED <<temp_path, lecture_id, audio, text, called_generate,
                   structured_notes, e, reply>>
    /\ UNCHANGED <<s_vars, d_vars, g_vars, p_vars, n_vars>>


\* gemini_service.py lines 16-24, main.py lines 117-131: the executor runs
\* _generate_notes_sync and the run gets its result or its ValueError
GenerateNotes(r) ==
    /\ pc[r] = "generate_notes"
    /\ UNCHANGED <<temp_path, lecture_id, audio, text, called_generate, reply>>
    /\ UNCHANGED <<s_vars, d_vars, g_vars, p_vars, n_vars>>
    /\ \E outcome \in CoreOutcomes :
          LET got == generate_notes_sync(text[r], outcome)
          IN  IF got.raised
                THEN /\ Catch(r, Error(got.exc, "generate_notes"))
                     /\ UNCHANGED structured_notes
                ELSE /\ structured_notes' = [structured_notes EXCEPT ![r] =
                            [fallback |-> got.fallback, notes |-> got.notes]]
                     /\ pc' = [pc EXCEPT ![r] = "insert_note"]
                     /\ UNCHANGED e

\* line 120: note_doc
NoteDoc(r) ==
    [lecture_id |-> lecture_id[r], transcript |-> text[r],
     structured_notes |-> structured_notes[r]]

\* mutation of InsertNote: the two writes change places, the status is set
\* first and the NoteRecord is left to the next step
StatusBeforeNote(r) ==
    /\ pc[r] = "insert_note"
    /\ pc' = [pc EXCEPT ![r] = "update_completed"]
    /\ lectures' = UpdateOne(lectures, lecture_id[r], [status |-> "completed"])
    /\ UNCHANGED <<temp_path, lecture_id, audio, text, called_generate,
                   structured_notes, e, reply>>
    /\ UNCHANGED <<notes, purged, files, d_vars, g_vars, p_vars, n_vars>>

\* mutation of InsertNote: the insert answers but stores nothing
InsertNoteSkipped(r) ==
    /\ pc[r] = "insert_note"
    /\ pc' = [pc EXCEPT ![r] = "update_completed"]
    /\ UNCHANGED <<temp_path, lecture_id, audio, text, called_generate,
                   structured_notes, e, reply>>
    /\ UNCHANGED <<s_vars, d_vars, g_vars, p_vars, n_vars>>

\* line 133: await db.notes.insert_one(note_doc)
InsertNote(r) ==
    /\ pc[r] = "insert_note"
    /\ UNCHANGED <<temp_path, lecture_id, audio, text, called_generate,
                   structured_notes, reply>>
    /\ UNCHANGED <<lectures, purged, files, d_vars, g_vars, p_vars, n_vars>>
    /\ \/ Catch(r, Error("PersistenceError", "insert_note")) /\ UNCHANGED notes
       \/ /\ notes' = notes \cup {NoteDoc(r)}
          /\ pc' = [pc EXCEPT ![r] = "update_completed"]
          /\ UNCHANGED e

\* lines 136-157: the update answers; the file is removed and the run returns
UpdateCompleted(r) ==
    /\ pc[r] = "update_completed"
    /\ UNCHANGED <<called_generate, notes, purged, d_vars, g_vars, p_vars, n_vars>>
    /\ \/ /\ Catch(r, Error("PersistenceError", "update_completed"))
          /\ UNCHANGED <<temp_path, lecture_id, audio, text, structured_notes,
                         reply, lectures, files>>
       \/ /\ lectures' = UpdateOne(lectures, lecture_id[r], [status |-> "completed"])
          /\ files' = Removed(files, temp_path[r])
          /\ Finish(r, Completed(lecture_id[r], structured_notes[r]))

\* mutation of FailedWrite: the except block swallows the exception and the
\* run answers as if nothing had failed
FailedWriteSwallows(r) ==
    /\ pc[r] = "except"
    /\ UNCHANGED <<called_generate, notes, purged, lectures, d_vars, g_vars, p_vars, n_vars>>
    /\ files' = Removed(files, temp_path[r])
    /\ Finish(r, Http(200, Message("Notes generated successfully")))

\* lines 159-172 with lecture_id bound: the update to failed answers; if it
\* raises, its exception leaves the block before the cleanup
FailedWrite(r) ==
    /\ pc[r] = "except"
    /\ UNCHANGED <<called_generate, notes, purged, d_vars, g_vars, p_vars, n_vars>>
    /\ \/ /\ Finish(r, Unhandled(Error("PersistenceError", "update_failed")))
          /\ UNCHANGED <<lectures, files>>
       \/ /\ lectures' = UpdateOne(lectures, lecture_id[r],
                                   [status |-> "failed", error |-> e[r]])
          /\ files' = Removed(files, temp_path[r])
          /\ Finish(r, Http(500, e[r]))

\* the ids a caller of delete_lecture can name
KnownIds == {l \in LectureIds : lectures[l] # NoDoc} \cup {GhostId}

\* lines 226-230 of the one request to delete_lecture:
\* await db.notes.delete_many({"lecture_id": lecture_id})
DeleteNotes ==
    /\ d_pc = "request"
    /\ UNCHANGED <<r_vars, lectures, files, g_vars, p_vars, n_vars>>
    /\ \E id \in KnownIds :
          /\ d_id' = id
          /\ \/ /\ d_pc' = "done"
                /\ d_reply' = Http(500, Error("PersistenceError", "delete_many"))
                /\ UNCHANGED <<notes, purged>>
             \/ /\ notes' = {n \in notes : n.lecture_id # id}
                /\ purged' = purged \cup {id}
                /\ d_pc' = "delete_lecture"
                /\ UNCHANGED d_reply

\* lines 233-241: await db.lectures.delete_one; the HTTPException(404) of
\* line 236 is an Exception, caught at line 240 and raised again as a 500
DeleteLecture ==
    /\ d_pc = "delete_lecture"
    /\ UNCHANGED <<r_vars, notes, purged, files, d_id, g_vars, p_vars, n_vars>>
    /\ d_pc' = "done"
    /\ \/ /\ d_reply' = Http(500, Error("PersistenceError", "delete_one"))
          /\ UNCHANGED lectures
       \/ /\ d_id \in LectureIds /\ lectures[d_id] # NoDoc
          /\ lectures' = [lectures EXCEPT ![d_id] = NoDoc]
          /\ d_reply' = Http(200, Message("Lecture deleted successfully"))
       \/ /\ ~(d_id \in LectureIds /\ lectures[d_id] # NoDoc)
          /\ d_reply' = Http(500, Message("404: Lecture not found"))
          /\ UNCHANGED lectures

\* the states of a run that is in flight: it has staged its file and awaits
InFlight ==
    {"insert_lecture", "upload_file", "create_transcript", "poll", "sleep",
     "generate_notes", "insert_note", "update_completed", "except"}

\* the process dies while runs await: no line of theirs runs any more, the
\* except block included; the store and the upload directory stay as they
\* are, and requests that have not arrived yet meet a restarted process
Crash ==
    /\ \E r \in Runs : pc[r] \in InFlight
    /\ pc' = [r \in Runs |-> IF pc[r] \in InFlight THEN "crashed" ELSE pc[r]]
    /\ temp_path' = [r \in Runs |-> IF pc[r] \in InFlight THEN Unbound ELSE temp_path[r]]
    /\ lecture_id' = [r \in Runs |-> IF pc[r] \in InFlight THEN Unbound ELSE lecture_id[r]]
    /\ audio' = [r \in Runs |-> IF pc[r] \in InFlight THEN Unbound ELSE audio[r]]
    /\ text' = [r \in Runs |-> IF pc[r] \in InFlight THEN Unset ELSE text[r]]
    /\ structured_notes' =
          [r \in Runs |-> IF pc[r] \in InFlight THEN Unset ELSE structured_notes[r]]
    /\ e' = [r \in Runs |-> IF pc[r] \in InFlight THEN Unset ELSE e[r]]
    /\ d_pc' = IF d_pc = "delete_lecture" THEN "crashed" ELSE d_pc
    /\ UNCHANGED <<called_generate, reply, s_vars, d_id, d_reply, g_vars, p_vars, n_vars>>

Init == R_Init /\ G_Idle /\ P_Idle

Next ==
    \/ \E r \in Runs :
          \/ Receive(r)
          \/ InsertLecture(r)
          \/ UploadFile(r)
          \/ CreateTranscript(r)
          \/ Poll(r)
          \/ Sleep(r)
          \/ GenerateNotes(r)
          \/ InsertNote(r)
          \/ UpdateCompleted(r)
          \/ FailedWrite(r)
    \/ DeleteNotes
    \/ DeleteLecture
    \/ Crash

Spec == Init /\ [][Next]_vars

\* the pipeline at rest, for the specifications of a single call
R_Idle ==
    /\ pc = [r \in Runs |-> "idle"]
    /\ temp_path = [r \in Runs |-> Unbound]
    /\ lecture_id = [r \in Runs |-> Unbound]
    /\ audio = [r \in Runs |-> Unbound]
    /\ text = [r \in Runs |-> Unset]
    /\ called_generate = [r \in Runs |-> FALSE]
    /\ structured_notes = [r \in Runs |-> Unset]
    /\ e = [r \in Runs |-> Unset]
    /\ reply = [r \in Runs |-> Unset]
    /\ lectures = [l \in LectureIds |-> NoDoc]
    /\ notes = {}
    /\ purged = {}
    /\ files = [f \in Paths |-> NoFile]
    /\ d_pc = "idle"
    /\ d_id = Unbound
    /\ d_reply = Unset
    /\ n_pc = "idle"
    /\ n_id = Unbound
    /\ n_reply = Unset

NotesInit == G_Init /\ R_Idle /\ P_Idle

SpecNotes == NotesInit /\ [][G_Next]_vars

PollInit == P_Init /\ R_Idle /\ G_Idle

SpecPoll == PollInit /\ [][P_Next]_vars

(***************************************************************************)
(* SpecRequests: one request to get_notes and one to delete_lecture, on a  *)
(* store the pipeline has left behind.                                     *)
(***************************************************************************)
\* main.py lines 176-194: get_db, `await db.notes.find_one(...)`, and the
\* answer.  The HTTPException(404) of line 186 is raised inside the try
\* block: `except Exception` (line 193) catches it and raises a 500 whose
\* detail is str(e), "404: Notes not found".  A read leaves the store as it is.
GetNotes ==
    /\ n_pc = "request"
    /\ n_pc' = "done"
    /\ UNCHANGED <<r_vars, s_vars, d_vars, g_vars, p_vars>>
    /\ \E id \in LectureIds \cup {GhostId} :
          /\ n_id' = id
          /\ \/ n_reply' = Http(500, Error("PersistenceError", "find_one"))
             \/ \E note \in {n \in notes : n.lecture_id = id} :
                   n_reply' = [code |-> 200, note |-> note]
             \/ /\ {n \in notes : n.lecture_id = id} = {}
                /\ n_reply' = Http(500, Message("404: Notes not found"))

\* a NoteRecord as upload_lecture writes it (lines 119-133), here the one of
\* a transcript of one word and a provider that answered with GoodNotes
StoredNote(l) ==
    LET transcript == Text(0, 1, MinTranscriptChars, 0)
        got == generate_notes_sync(transcript,
                                   ProviderText([toks |-> <<"V">>, val |-> GoodNotes]))
    IN  [lecture_id |-> l, transcript |-> transcript,
         structured_notes |-> [fallback |-> got.fallback, notes |-> got.notes]]

\* what the runs and the deletions of the pipeline leave of one lecture: its
\* LectureRecord (none, or one with the status the run ended in or was cut
\* off in) and whether a NoteRecord refers to it
LectureShapes == {"none", "processing", "completed", "failed"}
StoredLecture(shape, l) ==
    CASE shape = "none"   -> NoDoc
      [] shape = "failed" ->
            [status |-> "failed", file_path |-> l,
             error |-> Error("HTTPStatusError", "upload_file")]
      [] OTHER            -> [status |-> shape, file_path |-> l]

RequestsInit ==
    /\ G_Idle
    /\ P_Idle
    /\ pc = [r \in Runs |-> "idle"]
    /\ temp_path = [r \in Runs |-> Unbound]
    /\ lecture_id = [r \in Runs |-> Unbound]
    /\ audio = [r \in Runs |-> Unbound]
    /\ text = [r \in Runs |-> Unset]
    /\ called_generate = [r \in Runs |-> FALSE]
    /\ structured_notes = [r \in Runs |-> Unset]
    /\ e = [r \in Runs |-> Unset]
    /\ reply = [r \in Runs |-> Unset]
    /\ files = [f \in Paths |-> NoFile]
    /\ \E shape \in [LectureIds -> LectureShapes], noted \in SUBSET LectureIds :
          /\ lectures = [l \in LectureIds |-> StoredLecture(shape[l], l)]
          /\ notes = {StoredNote(l) : l \in noted}
          \* a lecture that is gone, or completed without its note, has been
          \* through delete_many
          /\ purged = {l \in LectureIds :
                          \/ shape[l] = "none" /\ l \in noted
                          \/ shape[l] = "completed" /\ l \notin noted}
    /\ d_pc = "request"
    /\ d_id = Unbound
    /\ d_reply = Unset
    /\ n_pc = "request"
    /\ n_id = Unbound
    /\ n_reply = Unset

RequestsNext == GetNotes \/ DeleteNotes \/ DeleteLecture

SpecRequests == RequestsInit /\ [][RequestsNext]_vars

(***************************************************************************)
(* Properties of the pipeline and the store (Spec).                        *)
(***************************************************************************)
\* the NoteRecords that reference lecture l
NotesOf(l) == {n \in notes : n.lecture_id = l}

StatusIs(l, status) == lectures[l] # NoDoc /\ lectures[l].status = status

\* C1 as stated: in every reachable state a LectureRecord has status
\* completed if and only if exactly one NoteRecord references it
C1_CompletedIffOneNote ==
    \A l \in LectureIds :
        lectures[l] # NoDoc
           => (lectures[l].status = "completed" <=> Cardinality(NotesOf(l)) = 1)

\* C1 amended: in every reachable state, intermediate states and runs with
\* failed writes included, a LectureRecord with status completed has exactly
\* one NoteRecord referencing it, unless a delete_lecture request has deleted
\* the notes of that lecture; and no lecture ever has more than one NoteRecord
C1_CompletedOnlyWithOneNote ==
    \A l \in LectureIds :
        /\ (StatusIs(l, "completed") /\ l \notin purged)
              => Cardinality(NotesOf(l)) = 1
        /\ Cardinality(NotesOf(l)) <= 1

\* a run has completed its lecture and the note is there
C1_Witness ==
    \E l \in LectureIds :
        /\ StatusIs(l, "completed")
        /\ l \notin purged
        /\ pc[l] = "done"
        /\ Cardinality(NotesOf(l)) = 1

\* C2: a LectureRecord with status failed has no NoteRecord referencing it
C2_FailedHasNoNote ==
    \A l \in LectureIds : StatusIs(l, "failed") => NotesOf(l) = {}

\* C3: when a run that inserted its LectureRecord has ended, the record's
\* status is completed or failed
C3_NeverLeftProcessing ==
    \A r \in Runs :
        (pc[r] = "done" /\ lectures[r] # NoDoc)
           => lectures[r].status \in {"completed", "failed"}

\* C4: when a run has ended, no file it staged is in the upload directory
C4_StagedFileAbsent ==
    \A r \in Runs : pc[r] = "done" => \A f \in Paths : files[f] # r

\* C5: the step that ends a run in which a transcription step failed leaves
\* the run without a call of generate_notes and without a NoteRecord, the
\* LectureRecord with status failed and the error, and the caller with an
\* error
C5_TranscriptionFailureMarksFailed ==
    [][\A r \in Runs :
          (pc[r] = "except" /\ e[r].stage \in TranscriptionStages /\ pc'[r] = "done")
             => /\ ~called_generate'[r]
                /\ \A n \in notes' : n.lecture_id # r
                /\ lectures'[r] # NoDoc
                      => /\ lectures'[r].status = "failed"
                         /\ lectures'[r].error = e[r]
                /\ reply'[r].code >= 400]_vars

\* C6: a run whose transcript passes the length precondition gets notes from
\* generate_notes whatever the provider, extraction and validation do; with
\* fallback notes the run goes on to insert the NoteRecord and to set the
\* status, and only a failed persistence write makes it fail; a run that
\* answers 200 has left its lecture completed and its NoteRecord in the
\* store, with the title the caller was given, fallback notes or not
C6_FallbackRunsComplete ==
    \A r \in Runs :
        /\ (pc[r] = "except" /\ e[r].stage = "generate_notes")
              => (text[r].none \/ StripLen(text[r]) < MinTranscriptChars)
        /\ (structured_notes[r] # Unset /\ structured_notes[r].fallback)
              => \/ pc[r] \in {"insert_note", "update_completed"}
                 \/ /\ pc[r] = "except"
                    /\ e[r].exc = "PersistenceError"
                    /\ e[r].stage \in {"insert_note", "update_completed"}
        /\ (pc[r] = "done" /\ reply[r].code = 200)
              => /\ lectures[r] # NoDoc => lectures[r].status = "completed"
                 /\ r \notin purged
                       => \E n \in notes :
                             /\ NotesOf(r) = {n}
                             /\ n.structured_notes.notes.d["title"]
                                  = reply[r].preview.title

\* the provider failed, and the run answered 200 with the fallback title, its
\* lecture completed and its fallback notes stored
C6_Witness ==
    \E r \in Runs :
        /\ pc[r] = "done"
        /\ reply[r].code = 200
        /\ reply[r].preview.title = JStr("Lecture Notes (Auto-generated)")
        /\ StatusIs(r, "completed")
        /\ \E n \in NotesOf(r) : n.structured_notes.fallback

\* C11: a run that has ended, with its LectureRecord still in the store,
\* answered without an error exactly when the record is completed, and after
\* an error answer the record is failed and carries the error
C11_ErrorExactlyWhenNotCompleted ==
    \A r \in Runs :
        (pc[r] = "done" /\ lectures[r] # NoDoc)
           => /\ reply[r].code = 200 <=> lectures[r].status = "completed"
              /\ reply[r].code # 200
                    => /\ lectures[r].status = "failed"
                       /\ "error" \in DOMAIN lectures[r]

\* the steps of run r
RunStep(r) ==
    \/ Receive(r)
    \/ InsertLecture(r)
    \/ UploadFile(r)
    \/ CreateTranscript(r)
    \/ Poll(r)
    \/ Sleep(r)
    \/ GenerateNotes(r)
    \/ InsertNote(r)
    \/ UpdateCompleted(r)
    \/ FailedWrite(r)

\* C12: the polling loop of a run has no maximum wait.  Whatever came before,
\* a run that polls can be told to wait and a run that waits polls again;
\* the run leaves the loop only for a completed job, for an exception of the
\* poll (a failed request or a job in error), or when the process dies; while
\* it is in the loop its LectureRecord, unless deleted, stays processing, and
\* its own steps leave the store and the upload directory as they are
C12_PollingUnbounded ==
    /\ [](\A r \in Runs :
            /\ pc[r] = "poll" => ENABLED (Poll(r) /\ pc'[r] = "sleep")
            /\ pc[r] = "sleep" => ENABLED (Sleep(r) /\ pc'[r] = "poll")
            /\ pc[r] \in {"poll", "sleep"}
                  => (lectures[r] = NoDoc \/ lectures[r].status = "processing"))
    /\ [][\A r \in Runs :
            /\ pc[r] = "sleep" => pc'[r] \in {"sleep", "poll", "crashed"}
            /\ pc[r] = "poll"
                  => /\ pc'[r] \in {"poll", "sleep", "generate_notes", "except", "crashed"}
                     /\ pc'[r] = "except" => e'[r].stage = "poll"
            /\ (pc[r] \in {"poll", "sleep"} /\ pc'[r] \in {"poll", "sleep"}
                /\ pc'[r] # pc[r])
                  => UNCHANGED <<lectures, notes, files>>]_vars

\* a run waits after a poll, its record processing and its file staged, while
\* the run that arrived after it has already ended
C12_Witness ==
    \E r \in Runs :
        /\ pc[r] = "sleep"
        /\ StatusIs(r, "processing")
        /\ files[temp_path[r]] = r
        /\ \E o \in Runs : o > r /\ pc[o] = "done"

\* C13: a LectureRecord enters the store with status processing; a step that
\* changes the status of a record changes it from processing to completed or
\* to failed; a record that is completed or failed keeps its status for as
\* long as it is in the store
C13_StatusMovesOnce ==
    [][\A l \in LectureIds :
          /\ (lectures[l] = NoDoc /\ lectures'[l] # NoDoc)
                => lectures'[l].status = "processing"
          /\ (lectures[l] # NoDoc /\ lectures'[l] # NoDoc
              /\ lectures'[l].status # lectures[l].status)
                => /\ lectures[l].status = "processing"
                   /\ lectures'[l].status \in {"completed", "failed"}]_vars

\* one lecture is completed, the other failed, both runs have ended and the
\* delete request is still to act
C13_Witness ==
    \E l \in LectureIds, k \in LectureIds :
        /\ StatusIs(l, "completed")
        /\ StatusIs(k, "failed")
        /\ pc[l] = "done"
        /\ pc[k] = "done"
        /\ d_pc = "request"

\* the two writes of the Completed path
CompletedPathWrites == {"insert_note", "update_completed"}

\* C14: a persistence error of the NoteRecord insert or of the update to
\* completed takes the run into the except block with that error; the block's
\* one step is the write of status failed with the error, which either
\* changes the record so or raises and changes nothing; either way the run
\* ends with an error answer, never with success
C14_PersistenceFailureReported ==
    [][\A r \in Runs :
          /\ (pc[r] \in CompletedPathWrites /\ pc'[r] # pc[r])
                => \/ pc'[r] = "crashed"
                   \/ pc[r] = "insert_note" /\ pc'[r] = "update_completed"
                   \/ pc[r] = "update_completed" /\ pc'[r] = "done"
                      /\ reply'[r].code = 200
                      /\ lectures'[r] # NoDoc => lectures'[r].status = "completed"
                   \/ /\ pc'[r] = "except"
                      /\ e'[r] = Error("PersistenceError", pc[r])
                      /\ UNCHANGED <<lectures, notes, reply>>
          /\ (pc[r] = "except" /\ e[r].stage \in CompletedPathWrites /\ pc'[r] # pc[r])
                => \/ pc'[r] = "crashed"
                   \/ /\ pc'[r] = "done"
                      /\ reply'[r].code = 500
                      /\ \/ lectures' = lectures
                         \/ /\ lectures'[r].status = "failed"
                            /\ lectures'[r].error = e[r]]_vars

\* the update to completed failed, the record is failed with that error and
\* the caller got a 500
C14_Witness ==
    \E r \in Runs :
        /\ pc[r] = "done"
        /\ StatusIs(r, "failed")
        /\ lectures[r].error = Error("PersistenceError", "update_completed")
        /\ reply[r] = Http(500, Error("PersistenceError", "update_completed"))

\* C15 as stated: when the process dies between the NoteRecord insert and the
\* status update, the LectureRecord is left completed with no NoteRecord
\* referencing it
C15_CrashLeavesCompletedWithoutNote ==
    [][\A r \in Runs :
          (pc[r] = "update_completed" /\ pc'[r] = "crashed" /\ lectures'[r] # NoDoc)
             => /\ lectures'[r].status = "completed"
                /\ NotesOf(r)' = {}]_vars

\* C15 amended: the NoteRecord insert comes before the status update, so when
\* the process dies between the two writes the LectureRecord is left
\* processing with its NoteRecord in the store (unless delete_lecture removed
\* either); and in no state, after the death of the process or not, is a
\* record completed without its NoteRecord unless delete_lecture deleted the
\* notes
C15_CrashLeavesNoteWithoutCompleted ==
    /\ [](\A r \in Runs :
            (StatusIs(r, "completed") /\ r \notin purged) => NotesOf(r) # {})
    /\ [][\A r \in Runs :
            (pc[r] = "update_completed" /\ pc'[r] = "crashed")
               => /\ lectures'[r] # NoDoc => lectures'[r].status = "processing"
                  /\ r \notin purged => Cardinality(NotesOf(r)') = 1]_vars

\* the process died between the two writes: one NoteRecord, status processing
C15_Witness ==
    \E r \in Runs :
        /\ pc[r] = "crashed"
        /\ StatusIs(r, "processing")
        /\ Cardinality(NotesOf(r)) = 1

\* C16: two runs in flight never hold the same temp_path, and the file a run
\* staged is still its own when upload_file comes to read it
C16_NoSharedTempPath ==
    /\ \A r \in Runs, o \in Runs :
          (r # o /\ temp_path[r] # Unbound /\ temp_path[o] # Unbound)
             => temp_path[r] # temp_path[o]
    /\ \A r \in Runs : pc[r] = "insert_lecture" => files[temp_path[r]] = r

\* the event loop runs every task that is ready: a run that can take a step
\* takes one, whatever the other runs do
SpecProgress == Init /\ [][Next]_vars /\ \A r \in Runs : WF_vars(RunStep(r))

\* C17: a run in flight always has a step of its own to take, whatever the
\* other runs are doing, one that waits between polls or for the generative
\* provider included; the request next in line can always be received; and
\* every run gets from the start of its transcription to the polling loop or
\* to its end, and from the end of the polling loop to its end (or to the
\* death of the process), without any other run having to end first
C17_RunsProgressIndependently ==
    /\ [](\A r \in Runs :
            /\ pc[r] \in InFlight => ENABLED RunStep(r)
            /\ (pc[r] = "request" /\ \A o \in 1..(r - 1) : pc[o] # "request")
                  => ENABLED Receive(r))
    /\ \A r \in Runs :
          /\ (pc[r] \in {"insert_lecture", "upload_file", "create_transcript"})
                ~> (pc[r] \in {"poll", "except", "done", "crashed"})
          /\ (pc[r] \in {"generate_notes", "insert_note", "update_completed", "except"})
                ~> (pc[r] \in {"done", "crashed"})

\* the first run waits between two polls, or for the generative provider,
\* and the run that arrived after it has completed
C17_Witness ==
    \E r \in Runs, o \in Runs :
        /\ o > r
        /\ pc[r] \in {"sleep", "generate_notes"}
        /\ pc[o] = "done"
        /\ reply[o].code = 200
        /\ StatusIs(o, "completed")

\* C20: once delete_lecture has answered that the lecture is deleted, no
\* NoteRecord refers to that lecture, whatever a run of upload_lecture for the
\* same lecture was doing meanwhile
C20_NoNoteAfterDelete ==
    (d_pc = "done" /\ d_reply.code = 200) => NotesOf(d_id) = {}

\* C21: a request to get_notes for a lecture id no NoteRecord refers to is
\* answered 404 "Notes not found", and a request to delete_lecture whose
\* delete_one deleted no LectureRecord is answered 404 "Lecture not found"
\* (the store answering both times); neither is answered 500
C21_NotFoundIs404 ==
    [][/\ (/\ n_pc = "request" /\ n_pc' = "done"
           /\ NotesOf(n_id') = {}
           /\ n_reply' # Http(500, Error("PersistenceError", "find_one")))
          => n_reply' = Http(404, Message("Notes not found"))
       /\ (/\ d_pc = "delete_lecture" /\ d_pc' = "done"
           /\ ~(d_id \in LectureIds /\ lectures[d_id] # NoDoc)
           /\ d_reply' # Http(500, Error("PersistenceError", "delete_one")))
          => d_reply' = Http(404, Message("Lecture not found"))]_vars

\* the exceptions that can be raised before the LectureRecord is inserted
EarlyErrors ==
    {Error("TypeError", "splitext"), Error("OSError", "open"),
     Error("TypeError", "get_db"), Error("PersistenceError", "insert_lecture")}

\* run r ends in this step, before its LectureRecord exists, by an exception
\* (not by the 400 or the 413 of the two checks at the door)
FailsEarly(r) ==
    /\ pc[r] \in {"request", "insert_lecture"}
    /\ pc'[r] = "done"
    /\ reply'[r].code \notin {400, 413}

\* C22: a run that fails before its LectureRecord is inserted ends with the
\* except block run to its end: the caller gets a 500 whose detail is the
\* exception first raised, no LectureRecord and no NoteRecord was written,
\* no provider was called, and no file the run staged is left
C22_EarlyFailureHandled ==
    [][\A r \in Runs :
          FailsEarly(r)
             => /\ reply'[r].code = 500
                /\ "detail" \in DOMAIN reply'[r]
                /\ reply'[r].detail \in EarlyErrors
                /\ lectures' = lectures
                /\ lectures'[r] = NoDoc
                /\ notes' = notes
                /\ NotesOf(r) = {}
                /\ audio[r] = Unbound
                /\ ~called_generate'[r]
                /\ \A p \in Paths : files'[p] # r
                /\ temp_path[r] # Unbound => files'[temp_path[r]] = NoFile]_vars

(***************************************************************************)
(* Properties of one call of _generate_notes_sync (SpecNotes).             *)
(***************************************************************************)
\* the call caught an exception and returned what _create_fallback_notes made
ReturnedFallback ==
    /\ g_pc = "returned"
    /\ g_e # Unset
    /\ g_notes = create_fallback_notes(g_transcript, g_e)

\* the call returned the notes validation made of the parsed value
ReturnedValidated ==
    /\ g_pc = "returned"
    /\ g_e = Unset

\* C7: for every transcript whose trimmed length is at least 50, whatever the
\* provider does, the call does not raise, and the value it returns is an
\* object that has all seven top-level fields and a non-empty sections
C7_SevenFieldsAndSections ==
    /\ (g_pc # "idle" /\ ~g_input.none /\ StripLen(g_input) >= MinTranscriptChars)
          => g_pc # "raised"
    /\ g_pc = "returned"
          => /\ g_notes.t = "dict"
             /\ RequiredKeys \subseteq DOMAIN g_notes.d
             /\ Truthy(g_notes.d["sections"])
             /\ g_notes.d["sections"].t = "list" => Len(g_notes.d["sections"].xs) >= 1

\* the provider's object had no field at all, and the call returned the seven
\* fields with the Overview section made from the default summary
C7_Witness ==
    /\ g_pc = "returned"
    /\ g_response.kind = "text"
    /\ g_response.resp.val = JDict(EmptyDict)
    /\ g_notes.t = "dict"
    /\ g_notes.d["sections"] = JList(<<OverviewSection(JStr("Summary unavailable"))>>)

\* C8: for every transcript whose trimmed length is below 50, an empty or a
\* missing one included, the call raises ValueError with no provider call
\* issued before, and returns nothing, fallback notes included
C8_ShortRaisesBeforeCall ==
    (g_pc # "idle" /\ (g_input.none \/ StripLen(g_input) < MinTranscriptChars))
       => /\ g_pc \in {"check", "raised"}
          /\ g_calls = 0
          /\ g_response = Unset
          /\ g_notes = Unset
          /\ g_pc = "raised" => g_e.exc = "ValueError"

\* a transcript of 49 characters between its whitespace made the call raise
C8_Witness ==
    /\ g_pc = "raised"
    /\ ~g_input.none
    /\ StripLen(g_input) = MinTranscriptChars - 1
    /\ g_calls = 0

\* the response holds no JSON value and no brace: prose, fences, whitespace
NonJson(resp) ==
    \A i \in 1..Len(resp.toks) : resp.toks[i] \in {"X", "F", "FJ", "WS"}

\* the response is a JSON object and nothing else
BareObject(resp) == resp.toks = <<"V">> /\ resp.val.t = "dict"

\* the response is a JSON object between an opening fence (``` or ```json) and
\* a closing one, with any whitespace between them
FencedObject(resp) ==
    /\ resp.val.t = "dict"
    /\ Len(resp.toks) >= 3
    /\ resp.toks[1] \in {"F", "FJ"}
    /\ resp.toks[Len(resp.toks)] = "F"
    /\ Strip(SubSeq(resp.toks, 2, Len(resp.toks) - 1)) = <<"V">>

\* the object lacks a required field
SchemaIncomplete(resp) ==
    (BareObject(resp) \/ FencedObject(resp)) /\ ~(RequiredKeys \subseteq DOMAIN resp.val.d)

\* C9 as stated: for a response that is non-JSON, a fenced JSON object or a
\* JSON object missing required fields, the call returns the fallback notes
\* and does not raise
C9_FallbackForFencedAndIncomplete ==
    (g_pc \in {"returned", "raised"} /\ g_response # Unset /\ g_response.kind = "text"
     /\ (NonJson(g_response.resp) \/ FencedObject(g_response.resp)
         \/ SchemaIncomplete(g_response.resp)))
       => ReturnedFallback

\* C9 amended: the call never raises once the provider has answered; for a
\* response with no JSON in it it returns the fallback notes made from the
\* JSONDecodeError; for a JSON object, fenced or not, complete or not, it
\* returns what validation makes of that object (absent and null fields
\* replaced by their defaults), and the fallback notes only when validation
\* itself raises
C9_FallbackOnlyWhenUnusable ==
    /\ g_response # Unset => g_pc # "raised"
    /\ (g_pc = "returned" /\ g_response.kind = "text")
          => LET resp == g_response.resp
                 valid == validate_notes_structure(resp.val)
             IN  /\ NonJson(resp)
                       => /\ ReturnedFallback
                          /\ g_e = [exc |-> "JSONDecodeError", len |-> 41]
                 /\ (BareObject(resp) \/ FencedObject(resp))
                       => IF valid.ok
                            THEN ReturnedValidated /\ g_notes = valid.v
                            ELSE ReturnedFallback /\ g_e = valid.err
                 /\ (SchemaIncomplete(resp) /\ "sections" \notin DOMAIN resp.val.d)
                       => /\ ReturnedValidated
                          /\ \A k \in DOMAIN resp.val.d :
                                resp.val.d[k].t # "null" => g_notes.d[k] = resp.val.d[k]

\* a fenced object with a title and nothing else came back as validated notes
\* with that title
C9_Witness ==
    /\ ReturnedValidated
    /\ g_response.kind = "text"
    /\ FencedObject(g_response.resp)
    /\ SchemaIncomplete(g_response.resp)
    /\ g_notes.d["title"] = JStr("T")
    /\ g_notes.d["summary"] = JStr("Summary unavailable")

\* the value validation was given: the object parsed from the response
ParsedObject == extract_json_from_response(g_response.resp).v

\* the sections the provider gave, null when it gave none
GivenSections ==
    IF "sections" \in DOMAIN ParsedObject.d THEN ParsedObject.d["sections"] ELSE JNull

\* C18: when validation returns, the value parsed was an object; every
\* top-level field of it other than sections that is present and not null is
\* returned unchanged, the title included; every required field that is absent
\* or null has its named default; a list of one or more sections comes back
\* with the same number of sections; and no sections (absent, null, an empty
\* list) come back as exactly one section, headed Overview, whose content is
\* the summary returned, defaulted or not
C18_ValidationKeepsAndDefaults ==
    ReturnedValidated =>
        /\ ParsedObject.t = "dict"
        /\ g_notes.t = "dict"
        /\ DOMAIN g_notes.d = DOMAIN ParsedObject.d \cup RequiredKeys
        /\ \A k \in DOMAIN ParsedObject.d \ {"sections"} :
              (ParsedObject.d[k].t # "null" \/ k \notin RequiredKeys)
                 => g_notes.d[k] = ParsedObject.d[k]
        /\ \A k \in RequiredKeys \ {"sections"} :
              (k \notin DOMAIN ParsedObject.d \/ ParsedObject.d[k].t = "null")
                 => g_notes.d[k] = Default(k)
        /\ (GivenSections.t = "list" /\ Len(GivenSections.xs) >= 1)
              => /\ g_notes.d["sections"].t = "list"
                 /\ Len(g_notes.d["sections"].xs) = Len(GivenSections.xs)
        /\ (GivenSections.t = "null"
              \/ (GivenSections.t = "list" /\ Len(GivenSections.xs) = 0))
              => /\ g_notes.d["sections"].t = "list"
                 /\ Len(g_notes.d["sections"].xs) = 1
                 /\ g_notes.d["sections"].xs[1].t = "dict"
                 /\ g_notes.d["sections"].xs[1].d["heading"] = JStr("Overview")
                 /\ g_notes.d["sections"].xs[1].d["content"] = g_notes.d["summary"]

\* the provider gave a title, a null summary, three sections and no lists of
\* terms: the title is kept, the summary and the lists are the defaults, and
\* three sections come back
C18_Witness ==
    /\ ReturnedValidated
    /\ ParsedObject.t = "dict"
    /\ DOMAIN ParsedObject.d = {"title", "summary", "sections"}
    /\ ParsedObject.d["title"] = JStr("T")
    /\ ParsedObject.d["summary"] = JNull
    /\ GivenSections.t = "list"
    /\ Len(GivenSections.xs) = 3
    /\ g_notes.d["title"] = JStr("T")
    /\ g_notes.d["summary"] = JStr("Summary unavailable")
    /\ g_notes.d["key_terms"] = JList(<<>>)
    /\ Len(g_notes.d["sections"].xs) = 3

\* the one section of the notes returned, and the text it holds
FirstSection == g_notes.d["sections"].xs[1].d
\* ' '.join(transcript.split()[:100]), with no ellipsis
FirstWords(tx) == PyText([kind |-> "words", of |-> tx, words |-> PreviewWords, dots |-> FALSE])
\* the text is one that joining its own words by single spaces gives back
OwnWordsJoined(tx) == tx.lead = 0 /\ tx.trail = 0 /\ ~tx.marked

\* the fields of the fallback value other than the content of its section
FallbackFrame ==
    /\ g_notes.t = "dict"
    /\ DOMAIN g_notes.d = RequiredKeys
    /\ g_notes.d["title"] = JStr("Lecture Notes (Auto-generated)")
    /\ g_notes.d["summary"].t = "text"
    /\ g_notes.d["summary"].tx.kind = "error_summary"
    /\ g_notes.d["summary"].tx.exc = g_e.exc
    /\ g_notes.d["summary"].tx.chars = (IF g_e.len <= 100 THEN g_e.len ELSE 100)
    /\ g_notes.d["sections"].t = "list"
    /\ Len(g_notes.d["sections"].xs) = 1
    /\ FirstSection["heading"] = JStr("Transcript Preview")
    /\ g_notes.d["key_terms"] = JList(<<>>)
    /\ g_notes.d["formulas"] = JList(<<>>)
    /\ g_notes.d["questions"] = JList(<<>>)
    /\ g_notes.d["action_items"].t = "list"
    /\ Len(g_notes.d["action_items"].xs) = 1

\* C19 as stated: the fallback value has the fixed title, a summary with at
\* most the first 100 characters of the error message, one section headed
\* Transcript Preview whose content is the first 100 words of the transcript,
\* no key_terms, formulas or questions, and one action item
C19_PreviewIsFirstHundredWords ==
    ReturnedFallback =>
        /\ FallbackFrame
        /\ \/ FirstSection["content"] = FirstWords(g_transcript)
           \/ /\ FirstSection["content"] = PyText([kind |-> "whole", of |-> g_transcript])
              /\ WordCount(g_transcript) <= 100
              /\ OwnWordsJoined(g_transcript)

\* C19, amended: the same, with the content of the section being the first
\* 100 words of the transcript joined by single spaces and followed by "..."
\* when the transcript (as the length guard left it) has more than 100 words,
\* and the whole of that transcript, its own whitespace and the truncation
\* marker included, when it has 100 words or fewer
C19_PreviewIsWordsAndEllipsisOrWhole ==
    ReturnedFallback =>
        /\ FallbackFrame
        /\ WordCount(g_transcript) > 100
              => FirstSection["content"] =
                    PyText([kind |-> "words", of |-> g_transcript, words |-> 100,
                            dots |-> TRUE])
        /\ WordCount(g_transcript) <= 100
              => FirstSection["content"] = PyText([kind |-> "whole", of |-> g_transcript])

\* the provider raised with a message of more than 100 characters on a
\* transcript of 101 words: the summary holds 100 characters of the message
\* and the preview ends in the ellipsis
C19_Witness ==
    /\ ReturnedFallback
    /\ g_e.len > 100
    /\ g_notes.d["summary"].tx.chars = 100
    /\ WordCount(g_transcript) = 101
    /\ FirstSection["content"].tx.kind = "words"
    /\ FirstSection["content"].tx.dots

(***************************************************************************)
(* Properties of one call of get_transcript (SpecPoll).                    *)
(***************************************************************************)
\* the status a reply reports, "" for an HTTP error
StatusOf(rep) == IF rep.http = "ok" THEN rep.status ELSE ""

\* the replies seen so far that made the call go on
Waited == {i \in 1..Len(p_seen) : p_seen[i].http = "ok"
                                   /\ p_seen[i].status \notin {"completed", "error"}}

\* C10: the call returns the reply of the first poll that reports completed,
\* raises at the first poll that reports error with the provider's message in
\* the exception, stops at nothing else but a failed request, and sleeps 5
\* seconds after every other reply before it polls again; for the replies
\* processing, processing, completed it returns at the third poll after 10
\* seconds of sleep
C10_PollUntilTerminal ==
    /\ \A i \in 1..(Len(p_seen) - 1) : i \in Waited
    /\ p_seen # <<>> =>
          LET last == p_seen[Len(p_seen)]
          IN  /\ StatusOf(last) = "completed"
                    <=> (p_pc = "returned" /\ p_result = last)
              /\ StatusOf(last) = "error"
                    => /\ p_pc = "raised"
                       /\ p_result.msg = <<"Transcription failed: ", last.error>>
              /\ p_pc = "raised" => (StatusOf(last) = "error" \/ last.http = "error")
              /\ Len(p_seen) \in Waited <=> p_pc \in {"sleep", "request"}
    /\ p_slept = PollSeconds * (Cardinality(Waited) - (IF p_pc = "sleep" THEN 1 ELSE 0))
    /\ (Len(p_seen) >= 3
        /\ StatusOf(p_seen[1]) = "processing" /\ StatusOf(p_seen[2]) = "processing"
        /\ StatusOf(p_seen[3]) = "completed")
          => (p_pc = "returned" /\ Len(p_seen) = 3 /\ p_result = p_seen[3]
              /\ p_slept >= 10)

\* processing, processing, completed: returned at the third poll, 10 seconds
C10_Witness ==
    /\ p_pc = "returned"
    /\ Len(p_seen) = 3
    /\ StatusOf(p_seen[1]) = "processing"
    /\ StatusOf(p_seen[2]) = "processing"
    /\ p_result = p_seen[3]
    /\ p_slept = 10

=============================================================================
